---------------------------- MODULE Spec2Model ----------------------------
(***************************************************************************)
(* A model of cartographer/mapping/id.h: the sparse container MapById      *)
(* (a std::map from trajectory id to MapByIndex, itself a can_append_ flag *)
(* and a std::map from index to data) and its forward ConstIterator.       *)
(*                                                                         *)
(* A std::map is modelled as a TLA+ function whose DOMAIN is the set of    *)
(* keys; a std::map iterator as a cursor that is either at a key of the    *)
(* map or at its end.  A failed glog CHECK aborts the process and an       *)
(* exception thrown by std::map::at is caught nowhere in the file, so      *)
(* either ends the run: the state in which it happened is kept, with the   *)
(* outcome of the call, and has no successor.                              *)
(*                                                                         *)
(* The dense container NestedVectorsById (a std::vector of std::vectors)   *)
(* and the comparison operators of NodeId and SubmapId are modelled too,   *)
(* each under a specification of its own: NestedVectorsByIdSpec, IdSpec.   *)
(***************************************************************************)
EXTENDS Integers, FiniteSets, Sequences, TLC

\* ---------------------------------------------------------------- bounds

\* Trajectory ids offered to the calls are -1 .. MaxTrajectoryId.
MaxTrajectoryId == 0

\* Indices offered to Insert, Trim and at are 0 .. MaxIndex, and an Append
\* that returns is offered only while the index it assigns stays within
\* MaxIndex.
MaxIndex == 2

\* An Append or Insert that stores an entry is offered only while fewer
\* entries than this are stored.
MaxEntries == 3

\* Trajectory ids offered to the calls of NestedVectorsById are
\* -2 .. MaxNestedTrajectoryId.
MaxNestedTrajectoryId == 2

\* An Append of NestedVectorsById is offered only while fewer values than
\* this are stored.
MaxValues == 3

TrajectoryIds == -1 .. MaxTrajectoryId

Indices == 0 .. MaxIndex

\* The payloads (DataType is opaque to the container).
DataValues == {"a", "b"}

NoData == "none"

Ids == [trajectory_id : TrajectoryIds, index : Indices]

\* ------------------------------------------------------------- std::map

\* The largest key of a non-empty key set: what rbegin()->first reads.
RBeginKey(keys) == CHOOSE k \in keys : \A j \in keys : j <= k

\* The smallest key of a non-empty key set: where begin() points.
BeginKey(keys) == CHOOSE k \in keys : \A j \in keys : k <= j

\* std::map::emplace: stores the value only when the key is not yet present.
Emplace(map, key, value) ==
    IF key \in DOMAIN map THEN map ELSE (key :> value) @@ map

\* Mutant of EmplaceInserted: the result of emplace is not looked at.
EmplaceInserted_Always(map, key) == TRUE

\* The bool of the pair std::map::emplace returns: whether it inserted.
EmplaceInserted(map, key) == key \notin DOMAIN map

\* Mutant of Erase: the element and every element after it are erased, as by
\* erase(it, end()).
Erase_ToEnd(map, key) == [k \in {j \in DOMAIN map : j < key} |-> map[k]]

\* std::map::erase of the element at an existing key.
Erase(map, key) == [k \in DOMAIN map \ {key} |-> map[k]]

\* std::map::operator[] on trajectories_: a missing key gets a
\* default-constructed MapByIndex (can_append_ = true, no data).
MapByIndex == [can_append_ |-> TRUE, data_ |-> <<>>]

Subscript(map, key) ==
    IF key \in DOMAIN map THEN map ELSE (key :> MapByIndex) @@ map

\* ------------------------------------------------------------ the state

VARIABLES
    trajectories_,  \* MapById::trajectories_
    ret,            \* the last call: its arguments and its outcome
    it,             \* the ConstIterator the caller holds: <<>> or <<iterator>>
    yielded,        \* what the caller's loop has read through that iterator
    num_appends,    \* history: the Append calls that returned, per trajectory
                    \* (kept while the trajectory can still be appended to)
    ever_occupied,  \* history: the positions that ever held an entry, per
                    \* trajectory (kept while it can still be appended to)
    data_,          \* NestedVectorsById::data_
    returned,       \* history: the (id, value) pairs NestedVectorsById::Append
                    \* has returned
    operands        \* the identifiers handed to the comparison operators

vars == <<trajectories_, ret, it, yielded, num_appends, ever_occupied,
          data_, returned, operands>>

\* What the calls of MapById and of its iterator leave alone.
NotOfMapById == <<data_, returned, operands>>

\* What the calls of NestedVectorsById leave alone.
NotOfNestedVectorsById ==
    <<trajectories_, it, yielded, num_appends, ever_occupied, operands>>

\* The record of a call.  outcome is "ok" (the call returned),
\* "check_failed" (a CHECK failed: the process aborted) or "out_of_range"
\* (std::map::at threw std::out_of_range).
Call(op, trajectory_id, index, data, outcome) ==
    [op |-> op, trajectory_id |-> trajectory_id, index |-> index,
     data |-> data, outcome |-> outcome]

\* The process is alive: no call has aborted it.
Running == ret.outcome = "ok"

NoIterator == <<>>

\* The identifiers stored in a container.
EntryIds(m) ==
    UNION {{[trajectory_id |-> t, index |-> i] : i \in DOMAIN m[t].data_} :
           t \in DOMAIN m}

\* The number of entries stored.
NumEntries(m) == Cardinality(EntryIds(m))

\* GetIndex(id): node_index or submap_index.
GetIndex(id) == id.index

\* --------------------------------------------------------- MapById calls

\* Mutant of AppendIndex: the number of entries instead of the largest
\* index plus one.
AppendIndex_Size(trajectory) == Cardinality(DOMAIN trajectory.data_)

\* Mutant of AppendIndex: the largest index, not incremented.
AppendIndex_NoIncrement(trajectory) ==
    IF DOMAIN trajectory.data_ = {}
    THEN 0
    ELSE RBeginKey(DOMAIN trajectory.data_)

\* Mutant of AppendIndex: the smallest position that holds no entry.
AppendIndex_FirstFree(trajectory) ==
    CHOOSE i \in 0 .. Cardinality(DOMAIN trajectory.data_) :
        /\ i \notin DOMAIN trajectory.data_
        /\ \A j \in 0 .. (i - 1) : j \in DOMAIN trajectory.data_

\* The index Append assigns in a trajectory.
AppendIndex(trajectory) ==
    IF DOMAIN trajectory.data_ = {}
    THEN 0
    ELSE RBeginKey(DOMAIN trajectory.data_) + 1

\* The first CHECK of Append.
AppendTrajectoryIdOk(trajectory_id) == trajectory_id >= 0

\* MapById::Append(trajectory_id, data).  (Sequences defines Append.)
MapById_Append(trajectory_id, data) ==
    /\ Running
    /\ it = NoIterator
    /\ IF ~AppendTrajectoryIdOk(trajectory_id)
       THEN \* CHECK_GE(trajectory_id, 0) fails before anything is touched
            /\ ret' = Call("Append", trajectory_id, 0, data, "check_failed")
            /\ UNCHANGED <<trajectories_, num_appends, ever_occupied>>
       ELSE LET created == Subscript(trajectories_, trajectory_id)
                trajectory == created[trajectory_id]
                index == AppendIndex(trajectory)
            IN  IF ~trajectory.can_append_
                THEN \* CHECK(trajectory.can_append_) fails
                     /\ trajectories_' = created
                     /\ ret' = Call("Append", trajectory_id, 0, data, "check_failed")
                     /\ UNCHANGED <<num_appends, ever_occupied>>
                ELSE /\ index <= MaxIndex
                     /\ NumEntries(trajectories_) < MaxEntries
                     /\ trajectories_' =
                            [created EXCEPT ![trajectory_id].data_ =
                                Emplace(trajectory.data_, index, data)]
                     /\ ret' = Call("Append", trajectory_id, index, data, "ok")
                     /\ num_appends' =
                            [num_appends EXCEPT ![trajectory_id] = @ + 1]
                     /\ ever_occupied' =
                            [ever_occupied EXCEPT ![trajectory_id] = @ \cup {index}]
    /\ UNCHANGED <<it, yielded>>
    /\ UNCHANGED NotOfMapById

\* Mutant of InsertCanAppend: Insert does not touch the flag.
InsertCanAppend_KeepsFlag(trajectory) == trajectory.can_append_

\* The flag Insert leaves in the trajectory.
InsertCanAppend(trajectory) == FALSE

\* Insert(id, data)
Insert(id, data) ==
    /\ Running
    /\ it = NoIterator
    /\ LET created == Subscript(trajectories_, id.trajectory_id)
           trajectory == created[id.trajectory_id]
           inserted == EmplaceInserted(trajectory.data_, GetIndex(id))
       IN  /\ inserted => NumEntries(trajectories_) < MaxEntries
           /\ trajectories_' =
                  [created EXCEPT ![id.trajectory_id] =
                      [can_append_ |-> InsertCanAppend(trajectory),
                       data_ |-> Emplace(trajectory.data_, GetIndex(id), data)]]
           \* CHECK(trajectory.data_.emplace(GetIndex(id), data).second)
           /\ ret' = Call("Insert", id.trajectory_id, id.index, data,
                          IF inserted THEN "ok" ELSE "check_failed")
    /\ num_appends' = [num_appends EXCEPT ![id.trajectory_id] = 0]
    /\ ever_occupied' = [ever_occupied EXCEPT ![id.trajectory_id] = {}]
    /\ UNCHANGED <<it, yielded>>
    /\ UNCHANGED NotOfMapById

\* Mutant of TrimCanAppend: Trim does not touch the flag.
TrimCanAppend_KeepsFlag(trajectory, index) == trajectory.can_append_

\* Mutant of TrimCanAppend: the flag is assigned, not only cleared.
TrimCanAppend_Assigns(trajectory, index) ==
    index # RBeginKey(DOMAIN trajectory.data_)

\* Mutant of TrimCanAppend: the test is for the first entry, not the last.
TrimCanAppend_First(trajectory, index) ==
    IF index = BeginKey(DOMAIN trajectory.data_)
    THEN FALSE
    ELSE trajectory.can_append_

\* Mutant of TrimCanAppend: the flag is cleared only when other entries
\* remain, so that an emptied trajectory can be appended to again.
TrimCanAppend_UnlessEmptied(trajectory, index) ==
    IF /\ index = RBeginKey(DOMAIN trajectory.data_)
       /\ DOMAIN trajectory.data_ # {index}
    THEN FALSE
    ELSE trajectory.can_append_

\* The flag Trim leaves in the trajectory when it removes the entry at index.
TrimCanAppend(trajectory, index) ==
    IF index = RBeginKey(DOMAIN trajectory.data_)
    THEN FALSE
    ELSE trajectory.can_append_

\* Trim(id)
Trim(id) ==
    /\ Running
    /\ it = NoIterator
    /\ IF id.trajectory_id \notin DOMAIN trajectories_
       THEN \* trajectories_.at(id.trajectory_id) throws
            /\ ret' = Call("Trim", id.trajectory_id, id.index, NoData, "out_of_range")
            /\ UNCHANGED <<trajectories_, num_appends, ever_occupied>>
       ELSE LET trajectory == trajectories_[id.trajectory_id]
            IN  IF GetIndex(id) \notin DOMAIN trajectory.data_
                THEN \* CHECK(it != trajectory.data_.end()) fails
                     /\ ret' = Call("Trim", id.trajectory_id, id.index, NoData,
                                    "check_failed")
                     /\ UNCHANGED <<trajectories_, num_appends, ever_occupied>>
                ELSE /\ trajectories_' =
                            [trajectories_ EXCEPT ![id.trajectory_id] =
                                [can_append_ |-> TrimCanAppend(trajectory, GetIndex(id)),
                                 data_ |-> Erase(trajectory.data_, GetIndex(id))]]
                     /\ ret' = Call("Trim", id.trajectory_id, id.index, NoData, "ok")
                     /\ num_appends' =
                            [num_appends EXCEPT ![id.trajectory_id] =
                                IF TrimCanAppend(trajectory, GetIndex(id))
                                THEN @ ELSE 0]
                     /\ ever_occupied' =
                            [ever_occupied EXCEPT ![id.trajectory_id] =
                                IF TrimCanAppend(trajectory, GetIndex(id))
                                THEN @ ELSE {}]
    /\ UNCHANGED <<it, yielded>>
    /\ UNCHANGED NotOfMapById

\* Mutant of at: a lookup that answers a missing identifier with a default
\* value (operator[] instead of at).
at_Default(m, id) ==
    IF /\ id.trajectory_id \in DOMAIN m
       /\ GetIndex(id) \in DOMAIN m[id.trajectory_id].data_
    THEN [outcome |-> "ok", data |-> m[id.trajectory_id].data_[GetIndex(id)]]
    ELSE [outcome |-> "ok", data |-> NoData]

\* at(id): the outcome and the value returned.
at(m, id) ==
    IF /\ id.trajectory_id \in DOMAIN m
       /\ GetIndex(id) \in DOMAIN m[id.trajectory_id].data_
    THEN [outcome |-> "ok", data |-> m[id.trajectory_id].data_[GetIndex(id)]]
    ELSE [outcome |-> "out_of_range", data |-> NoData]

\* A call of at(id).
At(id) ==
    /\ Running
    /\ it = NoIterator
    /\ ret' = Call("at", id.trajectory_id, id.index,
                   at(trajectories_, id).data, at(trajectories_, id).outcome)
    /\ UNCHANGED <<trajectories_, it, yielded, num_appends, ever_occupied>>
    /\ UNCHANGED NotOfMapById

\* ------------------------------------------------------ NestedVectorsById

NestedTrajectoryIds == -2 .. MaxNestedTrajectoryId

NestedIds == [trajectory_id : NestedTrajectoryIds, index : Indices]

\* data_ is a std::vector of std::vectors: a sequence of sequences, with the
\* element of C++ index n at n + 1.
Element(vector, n) == vector[n + 1]

\* The number of values stored.
NumValues(d) ==
    LET RECURSIVE Sum(_)
        Sum(k) == IF k = 0 THEN 0 ELSE Len(d[k]) + Sum(k - 1)
    IN  Sum(Len(d))

\* An int converted to size_t is used as a size or an index.  A negative int
\* becomes a value of at least 2^64 - 2^31: above vector::max_size() as a
\* size, and not below the size of any vector as an index.
ExceedsMaxSize(n) == n < 0

\* std::vector::at(n) of a vector with this size: whether n, converted to
\* size_t, is in range.
InRange(size, n) == n >= 0 /\ n < size

\* Mutant of ResizeSize: the size asked for is trajectory_id + 1, without
\* std::max.
ResizeSize_Exact(size, trajectory_id) == trajectory_id + 1

\* Mutant of ResizeSize: one trajectory more than needed.
ResizeSize_OneMore(size, trajectory_id) ==
    IF size >= trajectory_id + 2 THEN size ELSE trajectory_id + 2

\* std::max<size_t>(data_.size(), trajectory_id + 1), for trajectory_id + 1
\* that is not negative.
ResizeSize(size, trajectory_id) ==
    IF size >= trajectory_id + 1 THEN size ELSE trajectory_id + 1

\* std::vector::resize: cut to the size, or filled up with empty vectors.
Resize(vector, size) ==
    [k \in 1 .. size |-> IF k <= Len(vector) THEN vector[k] ELSE <<>>]

\* Mutant of PushBack: the value is put in front.
PushBack_Front(vector, value) == <<value>> \o vector

\* std::vector::push_back
PushBack(vector, value) == vector \o <<value>>

\* What an access outside data_ may leave behind: the stored values as they
\* are, or one of them overwritten.
Corrupted(d) ==
    {d} \cup UNION {{[d EXCEPT ![k][j] = v] : j \in DOMAIN d[k], v \in DataValues} :
                     k \in DOMAIN d}

\* NestedVectorsById::Append(trajectory_id, value)
NestedVectorsById_Append(trajectory_id, value) ==
    /\ Running
    /\ IF ExceedsMaxSize(trajectory_id + 1)
       THEN \* resize() throws std::length_error
            /\ ret' = Call("Append", trajectory_id, 0, value, "length_error")
            /\ UNCHANGED <<data_, returned>>
       ELSE LET resized == Resize(data_, ResizeSize(Len(data_), trajectory_id))
            IN  IF ~InRange(Len(resized), trajectory_id)
                THEN \* data_[trajectory_id] is outside data_: the behaviour
                     \* is undefined.  The call crashes, or returns an index
                     \* read from memory that is not a vector's.
                     /\ \E index \in Indices :
                            ret' = Call("Append", trajectory_id, index, value,
                                        "undefined")
                     /\ data_' \in Corrupted(resized)
                     /\ UNCHANGED returned
                ELSE LET index == Len(Element(resized, trajectory_id))
                         id == [trajectory_id |-> trajectory_id, index |-> index]
                     IN  /\ NumValues(data_) < MaxValues
                         /\ data_' =
                                [resized EXCEPT ![trajectory_id + 1] =
                                    PushBack(@, value)]
                         /\ ret' = Call("Append", trajectory_id, index, value, "ok")
                         /\ returned' = returned \cup {[id |-> id, data |-> value]}
    /\ UNCHANGED NotOfNestedVectorsById

\* NestedVectorsById::at(id): the outcome and the value returned.
NestedVectorsById_at(d, id) ==
    IF ~InRange(Len(d), id.trajectory_id)
    THEN [outcome |-> "out_of_range", data |-> NoData]
    ELSE IF ~InRange(Len(Element(d, id.trajectory_id)), GetIndex(id))
         THEN [outcome |-> "out_of_range", data |-> NoData]
         ELSE [outcome |-> "ok",
               data |-> Element(Element(d, id.trajectory_id), GetIndex(id))]

\* num_trajectories()
num_trajectories(d) == Len(d)

\* num_indices(trajectory_id): the outcome and the number returned.
num_indices(d, trajectory_id) ==
    IF ~InRange(Len(d), trajectory_id)
    THEN [outcome |-> "out_of_range", result |-> 0]
    ELSE [outcome |-> "ok", result |-> Len(Element(d, trajectory_id))]

\* A call of NestedVectorsById::at(id).
NestedVectorsById_At(id) ==
    /\ Running
    /\ ret' = Call("at", id.trajectory_id, id.index,
                   NestedVectorsById_at(data_, id).data,
                   NestedVectorsById_at(data_, id).outcome)
    /\ UNCHANGED <<data_, returned>>
    /\ UNCHANGED NotOfNestedVectorsById

\* A call of num_trajectories().
NumTrajectories ==
    /\ Running
    /\ ret' = [op |-> "num_trajectories", outcome |-> "ok",
               result |-> num_trajectories(data_)]
    /\ UNCHANGED <<data_, returned>>
    /\ UNCHANGED NotOfNestedVectorsById

\* A call of num_indices(trajectory_id).
NumIndices(trajectory_id) ==
    /\ Running
    /\ ret' = [op |-> "num_indices", trajectory_id |-> trajectory_id,
               outcome |-> num_indices(data_, trajectory_id).outcome,
               result |-> num_indices(data_, trajectory_id).result]
    /\ UNCHANGED <<data_, returned>>
    /\ UNCHANGED NotOfNestedVectorsById

\* ------------------------------------------------------- NodeId, SubmapId

\* An identifier is a record [trajectory_id, index]; index stands for
\* node_index in a NodeId and for submap_index in a SubmapId.

\* NodeId::operator==: operator== of the tuples (trajectory_id, node_index).
IdEquals(a, b) ==
    /\ a.trajectory_id = b.trajectory_id
    /\ a.index = b.index

\* NodeId::operator!=
IdNotEquals(a, b) == ~IdEquals(a, b)

\* Mutant of IdLess: only the trajectory ids are compared.
IdLess_TrajectoryOnly(a, b) == a.trajectory_id < b.trajectory_id

\* NodeId::operator<: operator< of the tuples (trajectory_id, node_index),
\* which compares the first elements, then the second ones.
IdLess(a, b) ==
    \/ a.trajectory_id < b.trajectory_id
    \/ /\ ~(b.trajectory_id < a.trajectory_id)
       /\ a.index < b.index

\* SubmapId::operator==: operator== of the tuples
\* (trajectory_id, submap_index).
SubmapIdEquals(a, b) ==
    /\ a.trajectory_id = b.trajectory_id
    /\ a.index = b.index

\* SubmapId::operator!=
SubmapIdNotEquals(a, b) == ~SubmapIdEquals(a, b)

\* SubmapId::operator<: operator< of the tuples (trajectory_id, submap_index).
SubmapIdLess(a, b) ==
    \/ a.trajectory_id < b.trajectory_id
    \/ /\ ~(b.trajectory_id < a.trajectory_id)
       /\ a.index < b.index

\* The type of the identifiers compared.
IdTypes == {"NodeId", "SubmapId"}

\* The caller compares the identifiers a, b and c it holds, of one type,
\* with the operators of that type.
Compare(type) ==
    /\ ret.op = "operands"
    /\ LET a == operands[1]
           b == operands[2]
           c == operands[3]
           Less(x, y) == IF type = "NodeId" THEN IdLess(x, y)
                         ELSE SubmapIdLess(x, y)
           Equals(x, y) == IF type = "NodeId" THEN IdEquals(x, y)
                           ELSE SubmapIdEquals(x, y)
           NotEquals(x, y) == IF type = "NodeId" THEN IdNotEquals(x, y)
                              ELSE SubmapIdNotEquals(x, y)
       IN  ret' = [op |-> "compare", type |-> type, outcome |-> "ok",
                   a_less_b |-> Less(a, b), b_less_a |-> Less(b, a),
                   b_less_c |-> Less(b, c), a_less_c |-> Less(a, c),
                   a_less_a |-> Less(a, a),
                   a_equals_b |-> Equals(a, b), b_equals_a |-> Equals(b, a),
                   a_equals_a |-> Equals(a, a),
                   a_not_equals_b |-> NotEquals(a, b)]
    /\ UNCHANGED <<operands, data_, returned>>
    /\ UNCHANGED <<trajectories_, it, yielded, num_appends, ever_occupied>>

\* --------------------------------------------------------- ConstIterator

\* A std::map const_iterator: at the element with a key, or at end().  A
\* default-constructed one (never assigned) is singular.
KeyCursor(key) == [pos |-> "key", key |-> key]

EndCursor == [pos |-> "end", key |-> 0]

SingularCursor == [pos |-> "singular", key |-> 0]

\* begin() of a map with these keys.
BeginCursor(keys) ==
    IF keys = {} THEN EndCursor ELSE KeyCursor(BeginKey(keys))

\* operator++ of a cursor that is at a key of a map with these keys.
NextCursor(keys, cursor) ==
    LET greater == {k \in keys : k > cursor.key}
    IN  IF greater = {} THEN EndCursor ELSE KeyCursor(BeginKey(greater))

\* Mutant of AdvanceToValidDataIterator: at the end of a trajectory the
\* iterator is exhausted, instead of moving on to the next trajectory.
AdvanceToValidDataIterator_FirstOnly(m, i) ==
    IF i.current_data_ = i.end_data_
    THEN [i EXCEPT !.current_trajectory_ = i.end_trajectory_]
    ELSE i

\* Mutant of AdvanceToValidDataIterator: an if in place of the while: the
\* iterator moves on to the next trajectory once, whether or not that one
\* holds an entry.
AdvanceToValidDataIterator_Once(m, i) ==
    IF i.current_data_ = i.end_data_
    THEN LET next == NextCursor(DOMAIN m, i.current_trajectory_)
         IN  IF next = i.end_trajectory_
             THEN [i EXCEPT !.current_trajectory_ = next]
             ELSE [i EXCEPT !.current_trajectory_ = next,
                            !.current_data_ = BeginCursor(DOMAIN m[next.key].data_),
                            !.end_data_ = EndCursor]
    ELSE i

\* AdvanceToValidDataIterator(): while the data cursor is at the end of its
\* trajectory, move on to the next trajectory, or stop at the last one's end.
RECURSIVE AdvanceToValidDataIterator(_, _)
AdvanceToValidDataIterator(m, i) ==
    IF i.current_data_ = i.end_data_
    THEN LET next == NextCursor(DOMAIN m, i.current_trajectory_)
         IN  IF next = i.end_trajectory_
             THEN [i EXCEPT !.current_trajectory_ = next]
             ELSE AdvanceToValidDataIterator(m,
                      [i EXCEPT !.current_trajectory_ = next,
                                !.current_data_ = BeginCursor(DOMAIN m[next.key].data_),
                                !.end_data_ = EndCursor])
    ELSE i

\* ConstIterator(map_by_id)
ConstIterator(m) ==
    LET current_trajectory_ == BeginCursor(DOMAIN m)
        end_trajectory_ == EndCursor
    IN  IF current_trajectory_ # end_trajectory_
        THEN AdvanceToValidDataIterator(m,
                 [current_trajectory_ |-> current_trajectory_,
                  end_trajectory_ |-> end_trajectory_,
                  current_data_ |->
                      BeginCursor(DOMAIN m[current_trajectory_.key].data_),
                  end_data_ |-> EndCursor])
        ELSE [current_trajectory_ |-> current_trajectory_,
              end_trajectory_ |-> end_trajectory_,
              current_data_ |-> SingularCursor,
              end_data_ |-> SingularCursor]

\* EndIterator(map_by_id)
EndIterator(m) ==
    LET i == ConstIterator(m)
    IN  [i EXCEPT !.current_trajectory_ = i.end_trajectory_]

\* operator*: the CHECK, then the IdDataReference.
Dereference(m, i) ==
    IF i.current_trajectory_ = i.end_trajectory_
    THEN [outcome |-> "check_failed",
          id |-> [trajectory_id |-> 0, index |-> 0], data |-> NoData]
    ELSE [outcome |-> "ok",
          id |-> [trajectory_id |-> i.current_trajectory_.key,
                  index |-> i.current_data_.key],
          data |-> m[i.current_trajectory_.key].data_[i.current_data_.key]]

\* operator++: the CHECK, ++current_data_, AdvanceToValidDataIterator().
Increment(m, i) ==
    IF i.current_trajectory_ = i.end_trajectory_
    THEN [outcome |-> "check_failed", it |-> i]
    ELSE [outcome |-> "ok",
          it |-> AdvanceToValidDataIterator(m,
                     [i EXCEPT !.current_data_ =
                         NextCursor(DOMAIN m[i.current_trajectory_.key].data_,
                                    i.current_data_)])]

\* Mutant of IteratorEquals: both cursors are compared, whether or not an
\* iterator is at the end.
IteratorEquals_BothCursors(a, b) ==
    /\ a.current_trajectory_ = b.current_trajectory_
    /\ a.current_data_ = b.current_data_

\* operator==
IteratorEquals(a, b) ==
    IF \/ a.current_trajectory_ = a.end_trajectory_
       \/ b.current_trajectory_ = b.end_trajectory_
    THEN a.current_trajectory_ = b.current_trajectory_
    ELSE /\ a.current_trajectory_ = b.current_trajectory_
         /\ a.current_data_ = b.current_data_

\* operator!=
IteratorNotEquals(a, b) == ~IteratorEquals(a, b)

\* begin()
begin(m) == ConstIterator(m)

\* end()
end(m) == EndIterator(m)

\* Mutant of empty: the container holds no trajectory.
empty_NoTrajectory(m) == DOMAIN m = {}

\* empty()
empty(m) == IteratorEquals(begin(m), end(m))

\* The caller starts a loop over the container:
\*     for (auto it = map.begin(); it != map.end(); ++it) { read *it }
\* The caller is single-threaded and runs the loop to its end: no other
\* call is made, and so the container is not changed, while the iterator is
\* in use (the calls above require it = NoIterator).
Begin ==
    /\ Running
    /\ it = NoIterator
    /\ it' = <<begin(trajectories_)>>
    /\ yielded' = <<>>
    /\ ret' = Call("begin", 0, 0, NoData, "ok")
    /\ UNCHANGED <<trajectories_, num_appends, ever_occupied>>
    /\ UNCHANGED NotOfMapById

\* One round of that loop: the test it != end(), then either the body and
\* ++it, or the exit from the loop, which destroys the iterator.
Iterate ==
    /\ Running
    /\ it # NoIterator
    /\ IF IteratorNotEquals(it[1], end(trajectories_))
       THEN LET read == Dereference(trajectories_, it[1])
                next == Increment(trajectories_, it[1])
            IN  /\ yielded' = yielded \o <<[id |-> read.id, data |-> read.data]>>
                /\ it' = <<next.it>>
                /\ ret' = Call("operator++", read.id.trajectory_id, read.id.index,
                               read.data,
                               IF read.outcome = "ok" THEN next.outcome
                               ELSE read.outcome)
       ELSE /\ yielded' = <<>>
            /\ it' = NoIterator
            /\ ret' = Call("end", 0, 0, NoData, "ok")
    /\ UNCHANGED <<trajectories_, num_appends, ever_occupied>>
    /\ UNCHANGED NotOfMapById

\* The caller leaves out the loop's test and reads through an iterator that
\* equals end(): *it.
DereferenceEnd ==
    /\ Running
    /\ it # NoIterator
    /\ IteratorEquals(it[1], end(trajectories_))
    /\ LET read == Dereference(trajectories_, it[1])
       IN  ret' = Call("operator*", read.id.trajectory_id, read.id.index,
                       read.data, read.outcome)
    /\ UNCHANGED <<trajectories_, it, yielded, num_appends, ever_occupied>>
    /\ UNCHANGED NotOfMapById

\* The caller leaves out the loop's test and advances an iterator that equals
\* end(): ++it.
IncrementEnd ==
    /\ Running
    /\ it # NoIterator
    /\ IteratorEquals(it[1], end(trajectories_))
    /\ LET next == Increment(trajectories_, it[1])
       IN  /\ it' = <<next.it>>
           /\ ret' = Call("operator++", 0, 0, NoData, next.outcome)
    /\ UNCHANGED <<trajectories_, yielded, num_appends, ever_occupied>>
    /\ UNCHANGED NotOfMapById

\* ---------------------------------------------------- the specification

Init ==
    /\ trajectories_ = <<>>
    /\ ret = Call("MapById", 0, 0, NoData, "ok")
    /\ it = NoIterator
    /\ yielded = <<>>
    /\ num_appends = [t \in TrajectoryIds |-> 0]
    /\ ever_occupied = [t \in TrajectoryIds |-> {}]
    /\ data_ = <<>>
    /\ returned = {}
    /\ operands = <<>>

Next ==
    \/ \E t \in TrajectoryIds, d \in DataValues : MapById_Append(t, d)
    \/ \E id \in Ids, d \in DataValues : Insert(id, d)
    \/ \E id \in Ids : Trim(id)
    \/ \E id \in Ids : At(id)
    \/ Begin
    \/ Iterate
    \/ DereferenceEnd
    \/ IncrementEnd

Spec == Init /\ [][Next]_vars

\* The dense container on its own: a NestedVectorsById is constructed and
\* its calls are made.
NestedVectorsByIdInit ==
    /\ data_ = <<>>
    /\ returned = {}
    /\ ret = Call("NestedVectorsById", 0, 0, NoData, "ok")
    /\ trajectories_ = <<>>
    /\ it = NoIterator
    /\ yielded = <<>>
    /\ num_appends = [t \in TrajectoryIds |-> 0]
    /\ ever_occupied = [t \in TrajectoryIds |-> {}]
    /\ operands = <<>>

NestedVectorsByIdNext ==
    \/ \E t \in NestedTrajectoryIds, v \in DataValues :
           NestedVectorsById_Append(t, v)
    \/ \E id \in NestedIds : NestedVectorsById_At(id)
    \/ NumTrajectories
    \/ \E t \in NestedTrajectoryIds : NumIndices(t)

NestedVectorsByIdSpec == NestedVectorsByIdInit /\ [][NestedVectorsByIdNext]_vars

\* The identifier types on their own: the caller holds three identifiers and
\* compares them.
IdInit ==
    /\ operands \in Ids \X Ids \X Ids
    /\ ret = [op |-> "operands", outcome |-> "ok"]
    /\ data_ = <<>>
    /\ returned = {}
    /\ trajectories_ = <<>>
    /\ it = NoIterator
    /\ yielded = <<>>
    /\ num_appends = [t \in TrajectoryIds |-> 0]
    /\ ever_occupied = [t \in TrajectoryIds |-> {}]

IdNext == \E type \in IdTypes : Compare(type)

IdSpec == IdInit /\ [][IdNext]_vars

\* ------------------------------------------------------------ the claims

\* What the formulas read of a trajectory of the container.
Positions(t) == DOMAIN trajectories_[t].data_

CanAppend(t) == trajectories_[t].can_append_

\* The identifier the last call was about (Append: the one it returned).
RetId == [trajectory_id |-> ret.trajectory_id, index |-> ret.index]

\* A step in which a locked trajectory stays, and stays locked.
LockPersists ==
    \A t \in DOMAIN trajectories_ :
        ~CanAppend(t) =>
            /\ t \in DOMAIN trajectories_'
            /\ ~trajectories_'[t].can_append_

\* A step that is an Append to a locked trajectory aborts and stores nothing.
AppendToLockedAborts ==
    ( /\ ret'.op = "Append"
      /\ ret'.trajectory_id \in DOMAIN trajectories_
      /\ ~CanAppend(ret'.trajectory_id) )
    => /\ ret'.outcome = "check_failed"
       /\ trajectories_' = trajectories_

\* C1 as stated: whenever can_append is true, the occupied positions of the
\* trajectory are exactly {0, ..., n-1} for some n >= 0.
C1_ContiguousWhileAppendable ==
    \A t \in DOMAIN trajectories_ :
        CanAppend(t) =>
            \E n \in 0 .. (MaxIndex + 1) : Positions(t) = 0 .. (n - 1)

\* C1 as amended: whenever can_append is true, with n >= 1 the number of
\* Append calls made to the trajectory, every occupied position lies in
\* {0, ..., n-1} (so each was assigned by an Append) and position n-1, the
\* trailing element, is still occupied; positions below n-1 may have been
\* removed by Trim, so the occupied positions need not be contiguous.
C1_AppendableRun ==
    \A t \in DOMAIN trajectories_ :
        CanAppend(t) =>
            /\ num_appends[t] >= 1
            /\ Positions(t) \subseteq 0 .. (num_appends[t] - 1)
            /\ (num_appends[t] - 1) \in Positions(t)

\* C1 witness: an appendable trajectory whose occupied positions have a gap
\* left by a Trim of a position that was not the trailing one.
C1_Witness ==
    \E t \in DOMAIN trajectories_ :
        /\ CanAppend(t)
        /\ ret.op = "Trim" /\ ret.outcome = "ok" /\ ret.trajectory_id = t
        /\ Positions(t) # {}
        /\ \A i \in Positions(t) : ret.index < i

\* C2: once a trajectory's can_append flag is false it is false in every
\* later state: no step of any call turns it back to true (or removes the
\* trajectory).
C2_LockIsPermanent == [][LockPersists]_vars

\* C2 witness: a Trim of a position that was not the largest has just acted
\* on a trajectory that was locked before, and the trajectory is still locked.
C2_Witness ==
    /\ ret.op = "Trim" /\ ret.outcome = "ok"
    /\ ret.trajectory_id \in DOMAIN trajectories_
    /\ ~CanAppend(ret.trajectory_id)
    /\ \E i \in Positions(ret.trajectory_id) : i > ret.index

\* C3: a Trim of the largest occupied position of a trajectory leaves the
\* flag false; the flag then stays false through every later call; and an
\* Append to a trajectory whose flag is false aborts without storing
\* anything.  Together: every Append after such a Trim aborts.
C3_TrimOfLargestLocks ==
    [][ /\ ( /\ ret'.op = "Trim" /\ ret'.outcome = "ok"
             /\ ret'.trajectory_id \in DOMAIN trajectories_
             /\ \A i \in Positions(ret'.trajectory_id) : i <= ret'.index )
           => /\ ret'.trajectory_id \in DOMAIN trajectories_'
              /\ ~trajectories_'[ret'.trajectory_id].can_append_
        /\ LockPersists
        /\ AppendToLockedAborts ]_vars

\* C3 witness: the end of Append(0,a); Append(0,b); Trim((0,1)); Append(0,c):
\* the last Append aborted, and (0,0) still holds a.
C3_Witness ==
    /\ ret.op = "Append" /\ ret.outcome = "check_failed" /\ ret.trajectory_id = 0
    /\ 0 \in DOMAIN trajectories_
    /\ ~CanAppend(0)
    /\ Positions(0) = {0}
    /\ at(trajectories_, [trajectory_id |-> 0, index |-> 0]) =
           [outcome |-> "ok", data |-> "a"]

\* C4: an Insert at an identifier that holds no entry returns, stores the
\* value at exactly that position (no other position of the trajectory
\* changes) and leaves the flag false, whatever the position and whether or
\* not the trajectory existed; the flag then stays false, and an Append to a
\* trajectory whose flag is false aborts.
C4_InsertStoresAndLocks ==
    [][ /\ ( /\ ret'.op = "Insert"
             /\ [trajectory_id |-> ret'.trajectory_id, index |-> ret'.index]
                    \notin EntryIds(trajectories_) )
           => LET t == ret'.trajectory_id
                  old == IF t \in DOMAIN trajectories_
                         THEN trajectories_[t].data_ ELSE <<>>
              IN  /\ ret'.outcome = "ok"
                  /\ t \in DOMAIN trajectories_'
                  /\ ~trajectories_'[t].can_append_
                  /\ DOMAIN trajectories_'[t].data_ = DOMAIN old \cup {ret'.index}
                  /\ trajectories_'[t].data_[ret'.index] = ret'.data
                  /\ \A i \in DOMAIN old : trajectories_'[t].data_[i] = old[i]
        /\ LockPersists
        /\ AppendToLockedAborts ]_vars

\* C4 witness: an Insert at a position other than 0 has created a trajectory
\* that holds only that position and is locked.
C4_Witness ==
    /\ ret.op = "Insert" /\ ret.outcome = "ok"
    /\ ret.index > 0
    /\ Positions(ret.trajectory_id) = {ret.index}
    /\ ~CanAppend(ret.trajectory_id)
    /\ DOMAIN trajectories_ = {ret.trajectory_id}

\* C5: the k-th Append to a trajectory that returns, returns position k-1.
C5_AppendReturnsCallOrder ==
    (ret.op = "Append" /\ ret.outcome = "ok")
    => ret.index = num_appends[ret.trajectory_id] - 1

\* C5 witness: a third Append to a trajectory has returned, after a Trim of
\* an earlier position.
C5_Witness ==
    /\ ret.op = "Append" /\ ret.outcome = "ok"
    /\ num_appends[ret.trajectory_id] = 3
    /\ Cardinality(Positions(ret.trajectory_id)) < 3

\* C6: in the state right after Append(t, v) has returned id, at(id)
\* returns v.
C6_AtOfAppend ==
    (ret.op = "Append" /\ ret.outcome = "ok")
    => at(trajectories_, RetId) = [outcome |-> "ok", data |-> ret.data]

\* C6 witness: an Append has returned in a trajectory that already held a
\* different value.
C6_Witness ==
    /\ ret.op = "Append" /\ ret.outcome = "ok"
    /\ \E i \in Positions(ret.trajectory_id) :
           trajectories_[ret.trajectory_id].data_[i] # ret.data

\* C7: an Insert at an identifier that holds an entry aborts and changes no
\* stored entry; and an Append or Insert that returns was about an
\* identifier that held no entry, and adds exactly that identifier.
C7_IdsAreFresh ==
    [][ /\ ( /\ ret'.op = "Insert"
             /\ [trajectory_id |-> ret'.trajectory_id, index |-> ret'.index]
                    \in EntryIds(trajectories_) )
           => /\ ret'.outcome = "check_failed"
              /\ DOMAIN trajectories_' = DOMAIN trajectories_
              /\ \A t \in DOMAIN trajectories_ :
                     trajectories_'[t].data_ = trajectories_[t].data_
        /\ ( /\ ret'.op \in {"Append", "Insert"}
             /\ ret'.outcome = "ok" )
           => LET id == [trajectory_id |-> ret'.trajectory_id,
                         index |-> ret'.index]
              IN  /\ id \notin EntryIds(trajectories_)
                  /\ EntryIds(trajectories_') = EntryIds(trajectories_) \cup {id}
      ]_vars

\* C7 witness: an Insert of a value at an identifier that holds another
\* value has aborted, and the entry still holds its value.
C7_Witness ==
    /\ ret.op = "Insert" /\ ret.outcome = "check_failed"
    /\ at(trajectories_, RetId).outcome = "ok"
    /\ at(trajectories_, RetId).data # ret.data

\* C8: a Trim or at of an identifier that holds no entry does not return: it
\* fails a CHECK or throws std::out_of_range, returns no value and changes
\* nothing, whether or not the trajectory exists.
C8_AbsentIdFails ==
    [][ ( /\ ret'.op \in {"Trim", "at"}
          /\ [trajectory_id |-> ret'.trajectory_id, index |-> ret'.index]
                 \notin EntryIds(trajectories_) )
        => /\ ret'.outcome \in {"check_failed", "out_of_range"}
           /\ ret'.data = NoData
           /\ trajectories_' = trajectories_ ]_vars

\* C8 witness: a Trim has failed in a trajectory that exists and that earlier
\* Trim calls have emptied.
C8_Witness ==
    /\ ret.op = "Trim" /\ ret.outcome = "check_failed"
    /\ ret.trajectory_id \in DOMAIN trajectories_
    /\ Positions(ret.trajectory_id) = {}

\* C9 as stated: a call with a negative trajectory id never returns, and no
\* trajectory with a negative id is ever stored.
C9_NegativeTrajectoryIdIsFatal ==
    /\ \A t \in DOMAIN trajectories_ : t >= 0
    /\ ( /\ ret.op \in {"Append", "Insert", "Trim", "at"}
         /\ ret.trajectory_id < 0 )
       => ret.outcome # "ok"

\* The lexicographic order of identifiers, (trajectory_id, position).
LexLess(a, b) ==
    \/ a.trajectory_id < b.trajectory_id
    \/ (a.trajectory_id = b.trajectory_id /\ a.index < b.index)

\* The entries stored, as the pairs an iterator yields.
Entries(m) == {[id |-> id, data |-> at(m, id).data] : id \in EntryIds(m)}

\* C10: a loop from begin() to end() reads entries that are stored, in
\* strictly ascending order of (trajectory_id, position), and when the
\* iterator equals end() it has read every stored entry, in as many
\* increments as there are entries.
C10_IterationInOrder ==
    it # NoIterator =>
        /\ \A k \in 1 .. Len(yielded) : yielded[k] \in Entries(trajectories_)
        /\ \A k \in 1 .. (Len(yielded) - 1) :
               LexLess(yielded[k].id, yielded[k + 1].id)
        /\ IteratorEquals(it[1], end(trajectories_)) =>
               /\ {yielded[k] : k \in 1 .. Len(yielded)} = Entries(trajectories_)
               /\ Len(yielded) = NumEntries(trajectories_)

\* C10 witness: a loop has reached end() after reading entries of two
\* trajectories, two of them in the same trajectory.
C10_Witness ==
    /\ it # NoIterator
    /\ IteratorEquals(it[1], end(trajectories_))
    /\ Len(yielded) = 3
    /\ yielded[1].id.trajectory_id # yielded[3].id.trajectory_id

\* C11: in every reachable state empty() returns true if and only if no
\* trajectory holds an entry, however many trajectories without entries there
\* are.
C11_EmptyIffNoEntry ==
    empty(trajectories_) <=>
        \A t \in DOMAIN trajectories_ : Positions(t) = {}

\* C11 witness: Trim calls have emptied two trajectories, both still exist,
\* and empty() returns true.
C11_Witness ==
    /\ ret.op = "Trim" /\ ret.outcome = "ok"
    /\ Cardinality(DOMAIN trajectories_) = 2
    /\ \A t \in DOMAIN trajectories_ : Positions(t) = {}
    /\ empty(trajectories_)

\* C12: a trajectory is created by the first Append or Insert that names it
\* and returns, by no other call, and is never removed; when a Trim has
\* removed the last entry of a trajectory, the trajectory still exists and
\* its flag is false; and an Append to a trajectory whose flag is false
\* aborts and stores nothing (it does not start again at position 0).
C12_TrajectoryIsNeverRemoved ==
    [][ /\ ( /\ ret'.op \in {"Append", "Insert"} /\ ret'.outcome = "ok" )
           => ret'.trajectory_id \in DOMAIN trajectories_'
        /\ DOMAIN trajectories_ \subseteq DOMAIN trajectories_'
        /\ DOMAIN trajectories_' # DOMAIN trajectories_
           => /\ ret'.op \in {"Append", "Insert"}
              /\ DOMAIN trajectories_' =
                     DOMAIN trajectories_ \cup {ret'.trajectory_id}
        /\ ( /\ ret'.op = "Trim" /\ ret'.outcome = "ok"
             /\ trajectories_'[ret'.trajectory_id].data_ = <<>> )
           => ~trajectories_'[ret'.trajectory_id].can_append_
        /\ AppendToLockedAborts ]_vars

\* C12 witness: an Append to a trajectory that Trim calls have emptied has
\* aborted; the trajectory still exists, locked and without entries.
C12_Witness ==
    /\ ret.op = "Append" /\ ret.outcome = "check_failed"
    /\ ret.trajectory_id \in DOMAIN trajectories_
    /\ Positions(ret.trajectory_id) = {}
    /\ ~CanAppend(ret.trajectory_id)

\* The iterators begin(), ++begin(), ... up to k increments, in a sequence:
\* the iterator after j increments is at j + 1.
RECURSIVE Walk(_, _, _)
Walk(m, i, k) ==
    IF k = 0 THEN <<i>> ELSE <<i>> \o Walk(m, Increment(m, i).it, k - 1)

\* C13: when begin() has been called, in any state of the container, with n
\* entries: over that state, begin() advanced k times and begin() advanced
\* j times (k, j <= n) compare equal if and only if both
\* are exhausted (k = j = n) or both point at the same trajectory and
\* position, which is so if and only if k = j; an iterator equals end(), on
\* either side of the comparison, if and only if it is exhausted; and
\* operator!= is the negation.
C13_IteratorEquality ==
    LET m == trajectories_
        n == NumEntries(m)
        advanced == Walk(m, begin(m), n)
        ids == [k \in 1 .. n |-> Dereference(m, advanced[k]).id]
    IN  ret.op = "begin" =>
        /\ \A k \in 0 .. n, j \in 0 .. n :
               /\ IteratorEquals(advanced[k + 1], advanced[j + 1])
                      <=> \/ k = n /\ j = n
                          \/ k < n /\ j < n /\ ids[k + 1] = ids[j + 1]
               /\ IteratorEquals(advanced[k + 1], advanced[j + 1]) <=> k = j
               /\ IteratorNotEquals(advanced[k + 1], advanced[j + 1]) <=> k # j
        /\ \A k \in 0 .. n :
               /\ IteratorEquals(advanced[k + 1], end(m)) <=> k = n
               /\ IteratorEquals(end(m), advanced[k + 1]) <=> k = n

\* C13 witness: a container with three entries in two trajectories; begin()
\* advanced three times equals end() although its inner cursor is not the
\* one end() holds, and it equals neither begin() nor begin() advanced once.
C13_Witness ==
    LET m == trajectories_
        advanced == Walk(m, begin(m), 3)
    IN  /\ ret.op = "begin"
        /\ it = <<advanced[1]>>
        /\ NumEntries(m) = 3
        /\ Cardinality(DOMAIN m) = 2
        /\ \A t \in DOMAIN m : Positions(t) # {}
        /\ IteratorEquals(advanced[4], end(m))
        /\ advanced[4].current_data_ # end(m).current_data_
        /\ ~IteratorEquals(advanced[4], advanced[2])
        /\ ~IteratorEquals(advanced[1], advanced[4])

\* C18: a Trim of an identifier that holds an entry returns and removes
\* exactly that entry: the other entries of the trajectory keep their
\* positions and values, every other trajectory keeps its entries and its
\* flag, and no trajectory is added or removed; the flag of the trimmed
\* trajectory is left as it was when a larger position is occupied, and
\* where it changes it changes to false.  An Append or Insert, whatever its
\* outcome, changes no trajectory other than the one named in the call.
C18_CallsChangeOnlyTheirTarget ==
    [][ /\ ( /\ ret'.op = "Trim"
             /\ [trajectory_id |-> ret'.trajectory_id, index |-> ret'.index]
                    \in EntryIds(trajectories_) )
           => LET t == ret'.trajectory_id
                  i == ret'.index
                  old == trajectories_[t]
                  new == trajectories_'[t]
              IN  /\ ret'.outcome = "ok"
                  /\ DOMAIN trajectories_' = DOMAIN trajectories_
                  /\ DOMAIN new.data_ = DOMAIN old.data_ \ {i}
                  /\ \A j \in DOMAIN new.data_ : new.data_[j] = old.data_[j]
                  /\ \A u \in DOMAIN trajectories_ \ {t} :
                         trajectories_'[u] = trajectories_[u]
                  /\ (\E j \in DOMAIN old.data_ : j > i)
                         => new.can_append_ = old.can_append_
                  /\ new.can_append_ # old.can_append_ => ~new.can_append_
        /\ ret'.op \in {"Append", "Insert"}
           => /\ DOMAIN trajectories_' \subseteq
                     DOMAIN trajectories_ \cup {ret'.trajectory_id}
              /\ \A u \in DOMAIN trajectories_ \ {ret'.trajectory_id} :
                     /\ u \in DOMAIN trajectories_'
                     /\ trajectories_'[u] = trajectories_[u]
      ]_vars

\* C18 witness: a Trim has removed a position between two occupied ones of
\* an appendable trajectory, which is still appendable, while another
\* trajectory exists.
C18_Witness ==
    /\ ret.op = "Trim" /\ ret.outcome = "ok"
    /\ CanAppend(ret.trajectory_id)
    /\ \E j \in Positions(ret.trajectory_id) : j < ret.index
    /\ \E j \in Positions(ret.trajectory_id) : j > ret.index
    /\ DOMAIN trajectories_ # {ret.trajectory_id}

\* The largest element of a non-empty set of positions.
Largest(positions) == CHOOSE i \in positions : \A j \in positions : j <= i

\* C19: an Append that returns, returns a position that held no entry at any
\* earlier time in that trajectory, positions freed by Trim included; and
\* after every call, in every trajectory whose flag is true, the largest
\* position that ever held an entry still holds one, and if the trajectory
\* holds no entry it never held one.
C19_AppendNeverReusesAnId ==
    [][ /\ ( /\ ret'.op = "Append" /\ ret'.outcome = "ok" )
           => ret'.index \notin ever_occupied[ret'.trajectory_id]
        /\ \A t \in DOMAIN trajectories_' :
               trajectories_'[t].can_append_
               => /\ ever_occupied'[t] # {}
                     => Largest(ever_occupied'[t]) \in DOMAIN trajectories_'[t].data_
                  /\ DOMAIN trajectories_'[t].data_ = {}
                     => ever_occupied'[t] = {}
      ]_vars

\* C19 witness: an Append has returned in a trajectory in which a Trim had
\* freed a position; the position returned is not the freed one.
C19_Witness ==
    /\ ret.op = "Append" /\ ret.outcome = "ok"
    /\ \E j \in ever_occupied[ret.trajectory_id] :
           /\ j \notin Positions(ret.trajectory_id)
           /\ j # ret.index

\* The iterator is exhausted: its trajectory cursor is the end cursor.
Exhausted(i) == i.current_trajectory_ = i.end_trajectory_

\* C20: after begin() and after every operator++, the iterator the caller
\* holds is exhausted, or its trajectory cursor is at a trajectory of the
\* container and its inner cursor at a position that holds an entry in that
\* trajectory (not at the end of the trajectory's map), and operator* then
\* returns a stored (identifier, data) pair; and an operator* or operator++
\* on an exhausted iterator fails its CHECK.
C20_IteratorIsValidOrExhausted ==
    [][ /\ it' # NoIterator
           => LET m == trajectories_'
                  i == it'[1]
              IN  \/ Exhausted(i)
                  \/ /\ i.current_trajectory_.pos = "key"
                     /\ i.current_trajectory_.key \in DOMAIN m
                     /\ i.current_data_.pos = "key"
                     /\ i.current_data_.key
                            \in DOMAIN m[i.current_trajectory_.key].data_
                     /\ Dereference(m, i).outcome = "ok"
                     /\ [id |-> Dereference(m, i).id,
                         data |-> Dereference(m, i).data] \in Entries(m)
        /\ ( /\ it # NoIterator
             /\ Exhausted(it[1])
             /\ ret'.op \in {"operator*", "operator++"} )
           => /\ ret'.outcome = "check_failed"
              /\ trajectories_' = trajectories_
      ]_vars

\* C20 witness: a loop that began behind an emptied trajectory has read the
\* entries and reached end(); the operator* that followed on the exhausted
\* iterator has failed its CHECK.
C20_Witness ==
    /\ ret.op = "operator*" /\ ret.outcome = "check_failed"
    /\ it # NoIterator
    /\ Exhausted(it[1])
    /\ Len(yielded) >= 2
    /\ \E t \in DOMAIN trajectories_ :
           /\ t < yielded[1].id.trajectory_id
           /\ Positions(t) = {}

\* ------------------------------------- the claims about NestedVectorsById

\* C14: Append(t, value) with t >= 0 returns (t, n), n the number of values
\* trajectory t held before the call (none if it did not exist); trajectory
\* t is then what it was with value at its end; the number of trajectories
\* becomes the larger of what it was and t + 1; every trajectory created
\* besides t is empty, and every other trajectory that existed is unchanged.
C14_DenseAppend ==
    [][ ( /\ ret'.op = "Append" /\ ret'.trajectory_id >= 0 )
        => LET t == ret'.trajectory_id
               before == IF t < Len(data_) THEN data_[t + 1] ELSE <<>>
               count == IF Len(data_) >= t + 1 THEN Len(data_) ELSE t + 1
           IN  /\ ret'.outcome = "ok"
               /\ ret'.index = Len(before)
               /\ Len(data_') = count
               /\ num_trajectories(data_') = count
               /\ data_'[t + 1] = before \o <<ret'.data>>
               /\ \A k \in (1 .. count) \ {t + 1} :
                      data_'[k] = IF k <= Len(data_) THEN data_[k] ELSE <<>>
      ]_vars

\* C14 witness: Append(2, value) on a container that held only trajectory 0
\* has returned (2, 0); trajectory 1 was created empty and trajectory 0
\* still holds its values.
C14_Witness ==
    /\ ret.op = "Append" /\ ret.outcome = "ok"
    /\ ret.trajectory_id = 2 /\ ret.index = 0
    /\ Len(data_) = 3
    /\ Len(data_[1]) = 2
    /\ data_[2] = <<>>

\* The trajectories of the dense container that exist, by trajectory id.
NestedTrajectories == 0 .. (Len(data_) - 1)

\* Trajectory j has received an Append (one that returned).
ReceivedAppend(j) == \E r \in returned : r.id.trajectory_id = j

\* No call has run into undefined behaviour.
Defined == ret.outcome # "undefined"

\* C15 as stated: for every trajectory k that exists there is a trajectory
\* j <= k that has received an Append.
C15_SomeLowerTrajectoryAppended ==
    Defined =>
        \A k \in NestedTrajectories :
            \E j \in NestedTrajectories : j <= k /\ ReceivedAppend(j)

\* C15 as amended: for every trajectory k that exists there is a trajectory
\* j >= k that has received an Append (Append(j, value) creates the missing
\* trajectories below j, not above it), and a trajectory that has received
\* no Append, created only to fill a gap, is empty.
C15_SomeHigherTrajectoryAppended ==
    Defined =>
        /\ \A k \in NestedTrajectories :
               \E j \in NestedTrajectories : j >= k /\ ReceivedAppend(j)
        /\ \A k \in NestedTrajectories :
               ~ReceivedAppend(k) => Element(data_, k) = <<>>

\* C15 witness: trajectories 0, 1 and 2 exist and only trajectory 2 has
\* received an Append; trajectories 0 and 1 are empty.
C15_Witness ==
    /\ Defined
    /\ NestedTrajectories = {0, 1, 2}
    /\ ReceivedAppend(2) /\ ~ReceivedAppend(1) /\ ~ReceivedAppend(0)
    /\ Element(data_, 0) = <<>> /\ Element(data_, 1) = <<>>
    /\ Element(data_, 2) # <<>>

\* The identifier denotes a value of the dense container d: its trajectory
\* exists and its index is one of that trajectory's.
ExistsIn(d, id) ==
    /\ id.trajectory_id \in 0 .. (Len(d) - 1)
    /\ id.index \in 0 .. (Len(d[id.trajectory_id + 1]) - 1)

\* C16: after every call (short of undefined behaviour), at(id) returns v for
\* every id that an Append has returned for the value v, whatever Append
\* calls came later; num_trajectories() and, for every trajectory that
\* exists, num_indices(t) are not smaller than before the call; and a call
\* of at(id) throws std::out_of_range if the trajectory or the index of id
\* does not exist, and returns otherwise.
C16_DenseIdsArePermanent ==
    [][ Defined' =>
        /\ \A r \in returned' :
               NestedVectorsById_at(data_', r.id) =
                   [outcome |-> "ok", data |-> r.data]
        /\ num_trajectories(data_') >= num_trajectories(data_)
        /\ \A t \in NestedTrajectories :
               /\ num_indices(data_', t).outcome = "ok"
               /\ num_indices(data_', t).result >= num_indices(data_, t).result
        /\ ret'.op = "at"
           => LET id == [trajectory_id |-> ret'.trajectory_id,
                         index |-> ret'.index]
              IN  ret'.outcome =
                      IF ExistsIn(data_, id) THEN "ok" ELSE "out_of_range"
      ]_vars

\* C16 witness: at(id) has returned the value an Append had returned id for,
\* after a later Append of another value to the same trajectory and with
\* another trajectory holding values.
C16_Witness ==
    /\ ret.op = "at" /\ ret.outcome = "ok"
    /\ [id |-> RetId, data |-> ret.data] \in returned
    /\ \E r \in returned :
           /\ r.id.trajectory_id = ret.trajectory_id
           /\ r.id.index > ret.index
           /\ r.data # ret.data
    /\ \E r \in returned : r.id.trajectory_id # ret.trajectory_id

\* ------------------------------------------ the claim about NodeId, SubmapId

\* C17: for identifiers a, b, c of one type, a < b is the strict
\* lexicographic order of (trajectory_id, index); a == b holds if and only
\* if both fields match; exactly one of a < b, a == b, b < a holds; a != b
\* is the negation of a == b; a < a is false; and a < b and b < c give
\* a < c.
C17_IdOrder ==
    ret.op = "compare" =>
        LET a == operands[1]
            b == operands[2]
        IN  /\ ret.a_less_b <=> LexLess(a, b)
            /\ ret.a_equals_b <=>
                   (a.trajectory_id = b.trajectory_id /\ a.index = b.index)
            /\ ret.a_equals_b <=> ret.b_equals_a
            /\ ret.a_equals_a
            /\ \/ ret.a_less_b /\ ~ret.a_equals_b /\ ~ret.b_less_a
               \/ ~ret.a_less_b /\ ret.a_equals_b /\ ~ret.b_less_a
               \/ ~ret.a_less_b /\ ~ret.a_equals_b /\ ret.b_less_a
            /\ ret.a_not_equals_b <=> ~ret.a_equals_b
            /\ ~ret.a_less_a
            /\ (ret.a_less_b /\ ret.b_less_c) => ret.a_less_c

\* C17 witness: a < b by the index alone, in one trajectory, and b < c by the
\* trajectory id although the index of b is the larger one; a < c was
\* computed as well.
C17_Witness ==
    /\ ret.op = "compare"
    /\ operands[1].trajectory_id = operands[2].trajectory_id
    /\ operands[1].index < operands[2].index
    /\ operands[2].trajectory_id < operands[3].trajectory_id
    /\ operands[2].index > operands[3].index
    /\ ret.a_less_b /\ ret.b_less_c /\ ret.a_less_c
    /\ ~ret.a_equals_b /\ ret.a_not_equals_b

=============================================================================
